---- MODULE Spec2Model ----
(***************************************************************************)
(* Event Booking API (backend/app): categories, time slots and bookings    *)
(* kept in a SQLite database, served by FastAPI handlers that each run in  *)
(* a thread of their own with a session of their own.                      *)
(*                                                                         *)
(* A handler that writes is two steps: its reads and checks (every SELECT  *)
(* runs in autocommit and sees the latest committed rows), then its flush  *)
(* and commit (INSERT or DELETE, atomic in SQLite, where the storage layer *)
(* checks the UNIQUE constraints).  Another request may commit in between. *)
(* A handler that rejects the request, or answers from what it read, ends  *)
(* in its first step.  book_time_slot has a third step: after its commit   *)
(* it reads its row back, and another request may commit before that too.  *)
(***************************************************************************)
EXTENDS Integers, Sequences, FiniteSets, TLC

VARIABLES
    event_categories,  \* rows of table event_categories: [id, name]
    time_slots,        \* rows of table time_slots: [id, category_id, start_time, end_time]
    bookings,          \* rows of table bookings: [id, time_slot_id, user_name, user_email, booked_at]
    req,               \* per worker thread: the handler it runs and the row its session holds
    response           \* what the last step of a handler sent: [op, status, detail, id]

vars == <<event_categories, time_slots, bookings, req, response>>

-----------------------------------------------------------------------------
(* Bounds of the model *)

\* Rows the model lets table time_slots grow to.
MaxSlots == 2
\* datetime.utcnow() reads 0..MaxClock (the wall clock: it may step back).
MaxClock == 1
\* Booking ids the model lets table bookings reach.
MaxBookingId == 2

\* Worker threads handling requests at the same time: two, the least a race needs.
Workers == {1, 2}
\* A datetime is its wall-clock fields, here one number, and, when the
\* string carried a UTC offset, that offset: an aware datetime. Without an
\* offset it is naive.
Naive(wall) == [wall |-> wall, aware |-> FALSE, offset |-> 0]

Aware(wall, offset) == [wall |-> wall, aware |-> TRUE, offset |-> offset]

\* Timestamps requests carry. Whether two intervals overlap depends only on
\* the order of their four endpoints, and four naive values give every
\* order; two aware values, 1+00:00 and 0-02:00, whose instants (1, 2) are
\* in the other order than their wall-clock fields (1, 0).
Times == {Naive(t) : t \in {0, 1, 2, 3}} \cup {Aware(1, 0), Aware(0, -2)}

\* An id is a Python int, of any size; a SQLite INTEGER is 64 bits wide. The
\* model scales the width down: SqliteIntegerMax stands for 2^63 - 1, the
\* greatest value the driver binds, and SqliteIntegerMax + 1 for 2^63.
SqliteIntegerMax == 7

\* Category ids requests name: two seeded categories, one that does not
\* exist and one the driver cannot bind.
CategoryIdInputs == {1, 2, 4, SqliteIntegerMax + 1}
\* Slot ids requests name: two slots that exist when bookings are made, one
\* that does not and one the driver cannot bind.
SlotIdInputs == {1, 2, 3, SqliteIntegerMax + 1}

\* Strings are sequences of one-character strings.
\* "a@x", "A@X", "A@X " (trailing space), "b@x"
EmailInputs ==
    { <<"a", "@", "x">>, <<"A", "@", "X">>, <<"A", "@", "X", " ">>,
      <<"b", "@", "x">> }
\* "n", " m "
NameInputs == { <<"n">>, <<" ", "m", " ">> }

\* A day has HoursPerDay instants: the datetime of day d, hour h is
\* d * HoursPerDay + h, and timedelta(days=1) is HoursPerDay. Times holds
\* two days of two hours.
HoursPerDay == 2
\* The last day a datetime can hold (datetime.max is 9999-12-31T23:59:59).
LastDay == 9

\* Date strings a listing carries, one character for the date, after a "T"
\* one for the hour, and after a sign one for the UTC offset:
\* "", "x", "0", "1", "0T1", "1T1", "1T0+0", "0T1-2", and "9", the last day.
DateInputs ==
    { <<>>, <<"x">>, <<"0">>, <<"1">>, <<"0", "T", "1">>, <<"1", "T", "1">>,
      <<"1", "T", "0", "+", "0">>, <<"0", "T", "1", "-", "2">>, <<"9">> }

\* category_ids strings a listing carries; <<>> is the absent parameter and
\* the empty string: "1", "1,2", "4", ",", "2, ", "x", and "8", an int the
\* driver cannot bind.
CategoryIdsInputs ==
    { <<>>, <<"1">>, <<"1", ",", "2">>, <<"4">>, <<",">>,
      <<"2", ",", " ">>, <<"x">>, <<"8">> }

-----------------------------------------------------------------------------
(* str.lower() and str.strip() *)

Whitespace == {" "}

LowerChar(c) ==
    CASE c = "A" -> "a"
      [] c = "B" -> "b"
      [] c = "X" -> "x"
      [] c = "M" -> "m"
      [] c = "N" -> "n"
      [] OTHER -> c

Lower(s) == [i \in 1..Len(s) |-> LowerChar(s[i])]

RECURSIVE LStrip(_)
LStrip(s) ==
    IF s # <<>> /\ Head(s) \in Whitespace THEN LStrip(Tail(s)) ELSE s

RECURSIVE RStrip(_)
RStrip(s) ==
    IF s # <<>> /\ s[Len(s)] \in Whitespace
    THEN RStrip(SubSeq(s, 1, Len(s) - 1))
    ELSE s

Strip(s) == RStrip(LStrip(s))

-----------------------------------------------------------------------------
(* datetime *)

\* What two aware datetimes are compared by: the wall-clock fields less the
\* offset. Two naive datetimes are compared by their wall-clock fields.
Instant(dt) == dt.wall - dt.offset

\* Comparing a naive with an aware datetime raises TypeError.
Comparable(a, b) == a.aware = b.aware

\* The greatest wall-clock value a datetime holds: the last hour of LastDay.
DatetimeMax == LastDay * HoursPerDay + (HoursPerDay - 1)

\* The DateTime column type of the SQLite dialect writes the wall-clock
\* fields of a datetime, as a row value and as a query parameter alike: the
\* offset is dropped, and what is read back is naive.
Stored(dt) == dt.wall

-----------------------------------------------------------------------------
(* The storage layer *)

Max(S) == CHOOSE x \in S : \A y \in S : y <= x

\* INTEGER PRIMARY KEY without AUTOINCREMENT: SQLite gives a new row the
\* largest id in the table plus one.
NextId(rows) == IF rows = {} THEN 1 ELSE Max({r.id : r \in rows}) + 1

\* The driver binds an int as a SQLite INTEGER when it fits 64 bits; for
\* one that does not, it raises OverflowError, which no handler catches.
FitsSqliteInteger(n) == n >= 0 - SqliteIntegerMax - 1 /\ n <= SqliteIntegerMax

\* session.get(EventCategory, id)
GetCategory(id) == {c \in event_categories : c.id = id}

\* session.get(TimeSlot, id)
GetTimeSlot(id) == {s \in time_slots : s.id = id}

\* slot.booking: the rows of bookings that reference the slot
SlotBooking(slot_id) == {b \in bookings : b.time_slot_id = slot_id}

\* UniqueConstraint("category_id", "start_time", "end_time")
TimeSlotUniqueViolation(c, s, e) ==
    \E t \in time_slots :
        t.category_id = c /\ t.start_time = s /\ t.end_time = e

\* bookings.time_slot_id without unique=True: no INSERT is refused.
NoBookingUniqueConstraint(slot_id) == FALSE

\* bookings.time_slot_id is unique=True
BookingUniqueViolation(slot_id) ==
    \E b \in bookings : b.time_slot_id = slot_id

-----------------------------------------------------------------------------
(* Requests and responses *)

Idle == [op |-> "idle"]

\* A response is [op, status, detail, id]; a book answered 201 also has
\* the body, a listing answered 200 the slots.
NoResponse == [op |-> "none", status |-> 0, detail |-> "", id |-> 0]

Respond(op, status, detail, id) ==
    response' = [op |-> op, status |-> status, detail |-> detail, id |-> id]

\* The handler goes on to its commit: nothing is sent yet.
Continue(op) == Respond(op, 0, "", 0)

\* An exception the handler does not catch: FastAPI answers 500.
InternalServerError(op) == Respond(op, 500, "Internal Server Error", 0)

Pending == {w \in Workers : req[w].op # "idle"}

Init ==
    /\ event_categories = {}
    /\ time_slots = {}
    /\ bookings = {}
    /\ req = [w \in Workers |-> Idle]
    /\ response = NoResponse

\* The thread pool hands a request to an idle worker; the workers are
\* interchangeable, so to the first idle one.
Free(w) ==
    /\ req[w].op = "idle"
    /\ \A v \in Workers : v < w => req[v].op # "idle"

\* on_startup has run: the app serves requests only after it.
Started == event_categories # {}

-----------------------------------------------------------------------------
(* init_database *)

SeedCategories ==
    { [id |-> 1, name |-> "Cat 1"],
      [id |-> 2, name |-> "Cat 2"],
      [id |-> 3, name |-> "Cat 3"] }

\* init_database without the check for existing categories, on a table
\* that lets a name repeat: every run inserts the three categories again.
InitDatabaseReseed ==
    /\ Cardinality(event_categories) <= 3
    /\ event_categories' = event_categories \cup
           { [id |-> NextId(event_categories) + c.id - 1, name |-> c.name] :
               c \in SeedCategories }
    /\ UNCHANGED <<time_slots, bookings, req, response>>

InitDatabase ==
    /\ event_categories' =
           IF event_categories # {} THEN event_categories ELSE SeedCategories
    /\ UNCHANGED <<time_slots, bookings, req, response>>

-----------------------------------------------------------------------------
(* create_time_slot *)

\* The WHERE clause of the overlap query, for the row t and the parameters
\* (start_time, end_time) as they are bound: wall-clock fields.
OverlapClause(t, start_time, end_time) ==
    \/ (start_time >= t.start_time /\ start_time < t.end_time)
    \/ (end_time > t.start_time /\ end_time <= t.end_time)
    \/ (start_time <= t.start_time /\ end_time >= t.end_time)

Overlapping(category_id, start_time, end_time) ==
    { t \in time_slots :
        /\ t.category_id = category_id
        /\ OverlapClause(t, start_time, end_time) }

\* Line 88: payload.end_time <= payload.start_time, for two datetimes that
\* are both naive or both aware.
InvalidRange(start_time, end_time) == Instant(end_time) <= Instant(start_time)

\* Lines 81-131: the category lookup (an OverflowError nobody catches when
\* the driver cannot bind the id), the range check (a TypeError nobody
\* catches when one datetime is naive and the other aware), the overlap
\* query and session.add of the new TimeSlot, held as the INSERT writes it.
CreateTimeSlotCheck(w, category_id, start_time, end_time) ==
    /\ Started
    /\ Free(w)
    /\ IF ~FitsSqliteInteger(category_id)
       THEN /\ InternalServerError("create")
            /\ UNCHANGED req
       ELSE IF GetCategory(category_id) = {}
       THEN /\ Respond("create", 404, "Category not found.", 0)
            /\ UNCHANGED req
       ELSE IF ~Comparable(start_time, end_time)
       THEN /\ InternalServerError("create")
            /\ UNCHANGED req
       ELSE IF InvalidRange(start_time, end_time)
       THEN /\ Respond("create", 400, "End time must be after the start time.", 0)
            /\ UNCHANGED req
       ELSE IF Overlapping(category_id, Stored(start_time), Stored(end_time)) # {}
       THEN /\ Respond("create", 409,
                       "A timeslot already exists for the selected time range.", 0)
            /\ UNCHANGED req
       ELSE /\ Cardinality(time_slots)
                 + Cardinality({v \in Workers : req[v].op = "create"}) < MaxSlots
            /\ req' = [req EXCEPT ![w] =
                          [op |-> "create",
                           slot |-> [category_id |-> category_id,
                                     start_time |-> Stored(start_time),
                                     end_time |-> Stored(end_time)]]]
            /\ Continue("create")
    /\ UNCHANGED <<event_categories, time_slots, bookings>>

\* Lines 132-134: session.commit(). The INSERT sets the id and fails with
\* IntegrityError when the (category_id, start_time, end_time) triple exists.
\* session.refresh reads the row back by its id: no handler changes or
\* deletes a slot, so it finds the row as it was inserted.
CreateTimeSlotCommit(w) ==
    /\ req[w].op = "create"
    /\ LET r == req[w].slot IN
       IF TimeSlotUniqueViolation(r.category_id, r.start_time, r.end_time)
       THEN /\ InternalServerError("create")
            /\ UNCHANGED time_slots
       ELSE LET id == NextId(time_slots) IN
            /\ time_slots' = time_slots \cup
                   { [id |-> id, category_id |-> r.category_id,
                      start_time |-> r.start_time, end_time |-> r.end_time] }
            /\ Respond("create", 201, "", id)
    /\ req' = [req EXCEPT ![w] = Idle]
    /\ UNCHANGED <<event_categories, bookings>>

CreateTimeSlot ==
    \E w \in Workers :
        \/ \E c \in CategoryIdInputs, s \in Times, e \in Times :
               CreateTimeSlotCheck(w, c, s, e)
        \/ CreateTimeSlotCommit(w)

-----------------------------------------------------------------------------
(* list_time_slots *)

DigitValue(c) ==
    CASE c = "0" -> 0
      [] c = "1" -> 1
      [] c = "2" -> 2
      [] c = "3" -> 3
      [] c = "4" -> 4
      [] c = "5" -> 5
      [] c = "6" -> 6
      [] c = "7" -> 7
      [] c = "8" -> 8
      [] c = "9" -> 9
      [] OTHER -> 0

Digits == {"0", "1", "2", "3", "4", "5", "6", "7", "8", "9"}

\* datetime.fromisoformat accepts a date, a date with a time of day, and a
\* date with a time of day and a UTC offset.
IsIsoFormat(s) ==
    \/ Len(s) = 1 /\ s[1] \in Digits
    \/ Len(s) \in {3, 5} /\ s[1] \in Digits /\ s[2] = "T" /\ s[3] \in Digits
                        /\ DigitValue(s[3]) < HoursPerDay
                        /\ (Len(s) = 5 => s[4] \in {"+", "-"} /\ s[5] \in Digits)

\* datetime.fromisoformat: a date alone is midnight of that day; a string
\* with an offset gives an aware datetime, one without a naive one.
FromIsoFormat(s) ==
    LET wall == DigitValue(s[1]) * HoursPerDay
                    + (IF Len(s) >= 3 THEN DigitValue(s[3]) ELSE 0)
    IN IF Len(s) = 5
       THEN Aware(wall, IF s[4] = "-" THEN 0 - DigitValue(s[5]) ELSE DigitValue(s[5]))
       ELSE Naive(wall)

\* datetime + timedelta(days=1) raises OverflowError when the wall-clock
\* fields of the sum are past datetime.max, with or without an offset.
PlusOneDayOverflows(dt) == dt.wall + HoursPerDay > DatetimeMax

\* datetime + timedelta(days=1): the offset stays.
PlusOneDay(dt) == [dt EXCEPT !.wall = dt.wall + HoursPerDay]

\* str.split(","): the parts between the commas, empty parts included.
RECURSIVE Split(_)
Split(s) ==
    IF \A i \in 1..Len(s) : s[i] # ","
    THEN <<s>>
    ELSE LET i == CHOOSE j \in 1..Len(s) :
                      s[j] = "," /\ \A k \in 1..(j - 1) : s[k] # ","
         IN <<SubSeq(s, 1, i - 1)>> \o Split(SubSeq(s, i + 1, Len(s)))

\* int(part) succeeds: digits, whitespace around them allowed.
IsInt(part) ==
    /\ Strip(part) # <<>>
    /\ \A i \in 1..Len(Strip(part)) : Strip(part)[i] \in Digits

RECURSIVE DecimalValue(_)
DecimalValue(d) ==
    IF d = <<>> THEN 0
    ELSE 10 * DecimalValue(SubSeq(d, 1, Len(d) - 1)) + DigitValue(d[Len(d)])

\* int(part)
ParseInt(part) == DecimalValue(Strip(part))

\* Line 184: the parts of category_ids that are not blank.
IdParts(category_ids) ==
    LET parts == Split(category_ids)
    IN {parts[i] : i \in {j \in 1..Len(parts) : Strip(parts[j]) # <<>>}}

\* Lines 175-191: the rows the query selects, for the parameters as they
\* are bound: wall-clock fields. ids is empty when
\* category_ids is absent, empty or holds no id: then no category filter.
SelectTimeSlots(start_dt, end_dt_inclusive, ids) ==
    { t \in time_slots :
        /\ t.start_time >= start_dt
        /\ t.start_time < end_dt_inclusive
        /\ (ids # {} => t.category_id \in ids) }

\* ORDER BY start_time: the rows in an order that start_time does not
\* decrease in; rows with equal start_time come in any order.
OrderByStartTime(rows) ==
    { seq \in [1..Cardinality(rows) -> rows] :
        /\ \A i, j \in 1..Cardinality(rows) : i # j => seq[i] # seq[j]
        /\ \A i, j \in 1..Cardinality(rows) :
               i < j => seq[i].start_time <= seq[j].start_time }

\* Lines 144-194. The handler only reads, in one SELECT. Nobody catches
\* the TypeError line 166 raises when one date is naive and the other aware,
\* the OverflowError line 173 raises when end_date is the last day, or the
\* OverflowError the execute of line 193 raises when the driver cannot bind
\* one of the ids.
ListTimeSlots(start_date, end_date, category_ids) ==
    /\ Started
    /\ IF start_date = <<>> \/ end_date = <<>>
       THEN Respond("list", 400, "Start date and end date are required.", 0)
       ELSE IF ~IsIsoFormat(start_date)
       THEN Respond("list", 400, "Invalid start_date format. Use YYYY-MM-DD.", 0)
       ELSE IF ~IsIsoFormat(end_date)
       THEN Respond("list", 400, "Invalid end_date format. Use YYYY-MM-DD.", 0)
       ELSE IF ~Comparable(FromIsoFormat(end_date), FromIsoFormat(start_date))
       THEN InternalServerError("list")
       ELSE IF Instant(FromIsoFormat(end_date)) < Instant(FromIsoFormat(start_date))
       THEN Respond("list", 400, "end_date must not be earlier than start_date.", 0)
       ELSE IF PlusOneDayOverflows(FromIsoFormat(end_date))
       THEN InternalServerError("list")
       ELSE IF category_ids # <<>> /\ \E part \in IdParts(category_ids) : ~IsInt(part)
       THEN Respond("list", 400, "category_ids must contain integers.", 0)
       ELSE IF /\ category_ids # <<>>
               /\ \E part \in IdParts(category_ids) : ~FitsSqliteInteger(ParseInt(part))
       THEN InternalServerError("list")
       ELSE LET start_dt == Stored(FromIsoFormat(start_date))
                end_dt_inclusive == Stored(PlusOneDay(FromIsoFormat(end_date)))
                ids == IF category_ids = <<>> THEN {}
                       ELSE {ParseInt(part) : part \in IdParts(category_ids)}
            IN \E slots \in OrderByStartTime(
                                SelectTimeSlots(start_dt, end_dt_inclusive, ids)) :
                   response' = [op |-> "list", status |-> 200, detail |-> "",
                                id |-> 0, slots |-> slots]
    /\ UNCHANGED <<event_categories, time_slots, bookings, req>>

ListTimeSlotsRequest ==
    \E start_date \in DateInputs, end_date \in DateInputs,
       category_ids \in CategoryIdsInputs :
        ListTimeSlots(start_date, end_date, category_ids)

-----------------------------------------------------------------------------
(* book_time_slot *)

\* The comparison of line 216 with the stored email on both sides.
SameEmailSelf(stored_email, payload_email) ==
    Lower(stored_email) = Lower(stored_email)

\* Line 216: slot.booking.user_email.lower() == payload.user_email.lower()
SameEmail(stored_email, payload_email) ==
    Lower(stored_email) = Lower(payload_email)

\* The Booking built from the payload as it came.
NewBookingRaw(slot_id, user_name, user_email) ==
    [time_slot_id |-> slot_id,
     user_name |-> user_name,
     user_email |-> user_email]

\* BookingRead.model_validate(booking): the body of a book's answer.
BookingRead(booking) ==
    [id |-> booking.id,
     user_name |-> booking.user_name,
     user_email |-> booking.user_email,
     booked_at |-> booking.booked_at]

\* A book answered 201 with a Booking.
RespondBooking(booking) ==
    response' = [op |-> "book", status |-> 201, detail |-> "",
                 id |-> booking.id, body |-> BookingRead(booking)]

\* Lines 223-227: the Booking built from the payload; its id and its
\* booked_at are set by the INSERT.
NewBooking(slot_id, user_name, user_email) ==
    [time_slot_id |-> slot_id,
     user_name |-> Strip(user_name),
     user_email |-> Strip(Lower(user_email))]

\* Lines 208-228: the slot lookup (an OverflowError nobody catches when the
\* driver cannot bind the id), the load of slot.booking, the decision on an
\* existing booking, and session.add of the new Booking.
BookTimeSlotCheck(w, slot_id, user_name, user_email) ==
    /\ Started
    /\ Free(w)
    /\ IF ~FitsSqliteInteger(slot_id)
       THEN /\ InternalServerError("book")
            /\ UNCHANGED req
       ELSE IF GetTimeSlot(slot_id) = {}
       THEN /\ Respond("book", 404, "Time slot not found.", 0)
            /\ UNCHANGED req
       ELSE IF SlotBooking(slot_id) # {}
       THEN LET booking == CHOOSE b \in SlotBooking(slot_id) : TRUE IN
            /\ IF SameEmail(booking.user_email, user_email)
               THEN RespondBooking(booking)
               ELSE Respond("book", 409, "This time slot is already booked.", 0)
            /\ UNCHANGED req
       ELSE /\ NextId(bookings)
                 + Cardinality({v \in Workers : req[v].op = "book"}) <= MaxBookingId
            /\ req' = [req EXCEPT ![w] =
                          [op |-> "book",
                           booking |-> NewBooking(slot_id, user_name, user_email)]]
            /\ Continue("book")
    /\ UNCHANGED <<event_categories, time_slots, bookings>>

\* Line 229: session.commit(). The INSERT sets the id, takes booked_at
\* from the column default, datetime.utcnow, and fails with IntegrityError
\* when a booking of the slot exists. After the COMMIT the handler still
\* has to read its row back.
BookTimeSlotCommit(w, utcnow) ==
    /\ req[w].op = "book"
    /\ LET r == req[w].booking IN
       IF BookingUniqueViolation(r.time_slot_id)
       THEN /\ InternalServerError("book")
            /\ UNCHANGED bookings
            /\ req' = [req EXCEPT ![w] = Idle]
       ELSE LET id == NextId(bookings) IN
            /\ bookings' = bookings \cup
                   { [id |-> id, time_slot_id |-> r.time_slot_id,
                      user_name |-> r.user_name, user_email |-> r.user_email,
                      booked_at |-> utcnow] }
            /\ req' = [req EXCEPT ![w] = [op |-> "refresh", booking_id |-> id]]
            /\ Continue("book")
    /\ UNCHANGED <<event_categories, time_slots>>

\* Lines 230-231: session.refresh(booking) selects the row with the id the
\* INSERT gave and loads the object from it, whatever booking that row is
\* by now; without a row it raises InvalidRequestError, which nobody
\* catches. The handler answers with the object.
BookTimeSlotRefresh(w) ==
    /\ req[w].op = "refresh"
    /\ LET rows == {b \in bookings : b.id = req[w].booking_id} IN
       IF rows = {}
       THEN InternalServerError("book")
       ELSE RespondBooking(CHOOSE b \in rows : TRUE)
    /\ req' = [req EXCEPT ![w] = Idle]
    /\ UNCHANGED <<event_categories, time_slots, bookings>>

BookTimeSlot ==
    \E w \in Workers :
        \/ \E s \in SlotIdInputs, n \in NameInputs, e \in EmailInputs :
               BookTimeSlotCheck(w, s, n, e)
        \/ \E utcnow \in 0..MaxClock : BookTimeSlotCommit(w, utcnow)
        \/ BookTimeSlotRefresh(w)

-----------------------------------------------------------------------------
(* cancel_booking *)

\* The commit of a cancel that answers 204 and deletes nothing.
CancelBookingCommitNoDelete(w) ==
    /\ req[w].op = "cancel"
    /\ Respond("cancel", 204, "", 0)
    /\ req' = [req EXCEPT ![w] = Idle]
    /\ UNCHANGED <<event_categories, time_slots, bookings>>

\* The comparison of line 253 with the stored email on both sides.
NotOwnerSelf(stored_email, payload_email) ==
    Lower(stored_email) # Lower(stored_email)

\* Line 253: slot.booking.user_email.lower() != payload.user_email.lower()
NotOwner(stored_email, payload_email) ==
    Lower(stored_email) # Lower(payload_email)

\* cancel_booking with session.delete and the commit moved before the owner
\* check: a cancel answered Forbidden has deleted the Booking.
CancelBookingCheckDeleteFirst(w, slot_id, user_email) ==
    /\ Started
    /\ Free(w)
    /\ SlotBooking(slot_id) # {}
    /\ LET booking == CHOOSE b \in SlotBooking(slot_id) : TRUE IN
       /\ bookings' = bookings \ {booking}
       /\ IF NotOwner(booking.user_email, user_email)
          THEN Respond("cancel", 403,
                       "Only the original attendee can cancel this booking.", 0)
          ELSE Respond("cancel", 204, "", 0)
    /\ UNCHANGED <<event_categories, time_slots, req>>

\* Lines 240-257: the slot lookup (an OverflowError nobody catches when the
\* driver cannot bind the id), the load of slot.booking and the owner check.
CancelBookingCheck(w, slot_id, user_email) ==
    /\ Started
    /\ Free(w)
    /\ IF ~FitsSqliteInteger(slot_id)
       THEN /\ InternalServerError("cancel")
            /\ UNCHANGED req
       ELSE IF GetTimeSlot(slot_id) = {}
       THEN /\ Respond("cancel", 404, "Time slot not found.", 0)
            /\ UNCHANGED req
       ELSE IF SlotBooking(slot_id) = {}
       THEN /\ Respond("cancel", 404, "No booking found for this time slot.", 0)
            /\ UNCHANGED req
       ELSE LET booking == CHOOSE b \in SlotBooking(slot_id) : TRUE IN
            IF NotOwner(booking.user_email, user_email)
            THEN /\ Respond("cancel", 403,
                            "Only the original attendee can cancel this booking.", 0)
                 /\ UNCHANGED req
            ELSE /\ req' = [req EXCEPT ![w] =
                               [op |-> "cancel", slot_id |-> slot_id,
                                booking_id |-> booking.id]]
                 /\ Continue("cancel")
    /\ UNCHANGED <<event_categories, time_slots, bookings>>

\* The commit of a cancel that waits until the Booking it loaded is there.
CancelBookingCommitWaits(w) ==
    /\ req[w].op = "cancel"
    /\ \E b \in bookings : b.id = req[w].booking_id
    /\ bookings' = {b \in bookings : b.id # req[w].booking_id}
    /\ Respond("cancel", 204, "", 0)
    /\ req' = [req EXCEPT ![w] = Idle]
    /\ UNCHANGED <<event_categories, time_slots>>

\* Lines 259-260: session.delete(slot.booking); session.commit(). The flush
\* emits DELETE FROM bookings WHERE id = <the id loaded>; a row already gone
\* is a warning, not an error.
CancelBookingCommit(w) ==
    /\ req[w].op = "cancel"
    /\ bookings' = {b \in bookings : b.id # req[w].booking_id}
    /\ Respond("cancel", 204, "", 0)
    /\ req' = [req EXCEPT ![w] = Idle]
    /\ UNCHANGED <<event_categories, time_slots>>

CancelBooking ==
    \E w \in Workers :
        \/ \E s \in SlotIdInputs, e \in EmailInputs : CancelBookingCheck(w, s, e)
        \/ CancelBookingCommit(w)

-----------------------------------------------------------------------------
(* Specifications *)

\* Slot creation alone, requests overlapping in time.
NextTimeSlots == InitDatabase \/ CreateTimeSlot

SpecTimeSlots == Init /\ [][NextTimeSlots]_vars

\* Slot creation alone, one request at a time: a request starts only when
\* no other is between its check and its commit.
SerialCreateTimeSlot ==
    \E w \in Workers :
        \/ \E c \in CategoryIdInputs, s \in Times, e \in Times :
               Pending = {} /\ CreateTimeSlotCheck(w, c, s, e)
        \/ CreateTimeSlotCommit(w)

NextSerialTimeSlots == InitDatabase \/ SerialCreateTimeSlot

SpecSerialTimeSlots == Init /\ [][NextSerialTimeSlots]_vars

\* Listing among slot creations handled one at a time.
NextListing == InitDatabase \/ SerialCreateTimeSlot \/ ListTimeSlotsRequest

SpecListing == Init /\ [][NextListing]_vars

\* Booking and cancelling on the slots an organizer has created.
FixtureSlots ==
    { [id |-> 1, category_id |-> 1, start_time |-> 0, end_time |-> 1],
      [id |-> 2, category_id |-> 1, start_time |-> 1, end_time |-> 2] }

InitBookings ==
    /\ event_categories = SeedCategories
    /\ time_slots = FixtureSlots
    /\ bookings = {}
    /\ req = [w \in Workers |-> Idle]
    /\ response = NoResponse

NextBookings == BookTimeSlot \/ CancelBooking

SpecBookings == InitBookings /\ [][NextBookings]_vars

\* Booking and cancelling, one request at a time: a request starts only
\* when no other is between its check and its commit.
SerialBookTimeSlot ==
    \E w \in Workers :
        \/ \E s \in SlotIdInputs, n \in NameInputs, e \in EmailInputs :
               Pending = {} /\ BookTimeSlotCheck(w, s, n, e)
        \/ \E utcnow \in 0..MaxClock : BookTimeSlotCommit(w, utcnow)
        \/ BookTimeSlotRefresh(w)

SerialCancelBooking ==
    \E w \in Workers :
        \/ \E s \in SlotIdInputs, e \in EmailInputs :
               Pending = {} /\ CancelBookingCheck(w, s, e)
        \/ CancelBookingCommit(w)

NextSerialBookings == SerialBookTimeSlot \/ SerialCancelBooking

SpecSerialBookings == InitBookings /\ [][NextSerialBookings]_vars

\* The whole service. Slot creation never reads a booking, and booking and
\* cancelling never write a slot or a category, so the properties of each
\* part are checked under the specification of that part above.
Next ==
    \/ InitDatabase
    \/ CreateTimeSlot
    \/ ListTimeSlotsRequest
    \/ BookTimeSlot
    \/ CancelBooking

Spec == Init /\ [][Next]_vars

\* The whole service on fewer inputs, small enough to explore in full
\* with requests of every kind overlapping in time: one category that
\* exists, one that does not and an id the driver cannot bind, three naive
\* timestamps and an aware one, two emails that differ after normalization,
\* one name, one clock reading, bookings of the first slot, listings from
\* the first day on.
ServiceCategoryIds == {1, 4, SqliteIntegerMax + 1}

ServiceTimes == {Naive(0), Naive(1), Naive(2), Aware(1, 0)}

ServiceEmails == { <<"a", "@", "x">>, <<"b", "@", "x">> }

ServiceNames == { <<"n">> }

\* The first slot created, an id no slot has while there are two, and an
\* id the driver cannot bind.
ServiceSlotIds == {1, 3, SqliteIntegerMax + 1}

NextService ==
    \/ InitDatabase
    \/ \E w \in Workers :
           \/ \E c \in ServiceCategoryIds, s \in ServiceTimes, e \in ServiceTimes :
                  CreateTimeSlotCheck(w, c, s, e)
           \/ CreateTimeSlotCommit(w)
    \/ \E end_date \in {<<"1">>, <<"9">>}, category_ids \in {<<>>, <<"4">>, <<"8">>} :
           ListTimeSlots(<<"0">>, end_date, category_ids)
    \/ \E w \in Workers :
           \/ \E s \in ServiceSlotIds, n \in ServiceNames, e \in ServiceEmails :
                  BookTimeSlotCheck(w, s, n, e)
           \/ BookTimeSlotCommit(w, 0)
           \/ BookTimeSlotRefresh(w)
    \/ \E w \in Workers :
           \/ \E s \in ServiceSlotIds, e \in ServiceEmails :
                  CancelBookingCheck(w, s, e)
           \/ CancelBookingCommit(w)

SpecService == Init /\ [][NextService]_vars

\* The whole service with its threads scheduled fairly: a handler that has
\* done its reads is a running thread with nothing to wait for, so its
\* commit is taken.
FairSpecService ==
    /\ SpecService
    /\ \A w \in Workers :
           /\ WF_vars(CreateTimeSlotCommit(w))
           /\ WF_vars(BookTimeSlotCommit(w, 0))
           /\ WF_vars(BookTimeSlotRefresh(w))
           /\ WF_vars(CancelBookingCommit(w))

-----------------------------------------------------------------------------
(* Properties of slot creation *)

\* The half-open rule: [s1, e1) and [s2, e2) share an instant.
HalfOpenOverlap(s1, e1, s2, e2) == s1 < e2 /\ s2 < e1

\* A persisted slot of the category that the interval [s, e) overlaps.
HalfOpenConflict(c, s, e) ==
    \E t \in time_slots :
        t.category_id = c /\ HalfOpenOverlap(s, e, t.start_time, t.end_time)

\* C1 as stated: with create_time_slot requests handled one at a time, no
\* two distinct persisted slots of one category overlap (half-open), and
\* every persisted slot ends after it starts.
C1_SerialNoOverlap ==
    /\ \A a \in time_slots : a.end_time > a.start_time
    /\ \A a \in time_slots, b \in time_slots :
           (a # b /\ a.category_id = b.category_id) =>
               ~HalfOpenOverlap(a.start_time, a.end_time, b.start_time, b.end_time)

\* C2 as stated: a request with end after start in an existing category is
\* rejected with Conflict exactly when some persisted slot of that category
\* overlaps it by the half-open rule; in every state the overlap query
\* selects a row for such an interval exactly when the half-open rule finds
\* one. The interval of the request is taken as the query takes it.
C2_ConflictIffHalfOpen ==
    /\ [](\A c \in CategoryIdInputs, s \in Times, e \in Times :
             (Comparable(s, e) /\ ~InvalidRange(s, e)) =>
                 ((Overlapping(c, Stored(s), Stored(e)) # {})
                    <=> HalfOpenConflict(c, Stored(s), Stored(e))))
    /\ [][\A w \in Workers :
             Free(w) =>
             \A c \in CategoryIdInputs :
                 GetCategory(c) # {} =>
                 \A s \in Times, e \in Times :
                     (/\ Comparable(s, e) /\ ~InvalidRange(s, e)
                      /\ CreateTimeSlotCheck(w, c, s, e)) =>
                         ((/\ req'[w].op = "idle"
                           /\ response'.op = "create"
                           /\ response'.status = 409)
                            <=> HalfOpenConflict(c, Stored(s), Stored(e)))]_vars

\* C3 as stated: a request whose end is not after its start is answered
\* InvalidRange (400) whatever the category id and the state of the store.
C3_InvalidRangeAlways ==
    [][\A w \in Workers :
          Free(w) =>
          \A c \in CategoryIdInputs, s \in Times, e \in Times :
              (Instant(e) <= Instant(s) /\ CreateTimeSlotCheck(w, c, s, e)) =>
                  (response'.op = "create" /\ response'.status = 400)]_vars

\* C7 as stated: with create_time_slot requests running at the same time,
\* of two requests whose intervals overlap in one category at most one is
\* persisted: no two persisted slots of a category overlap.
C7_ConcurrentNoOverlap ==
    \A a \in time_slots, b \in time_slots :
        (a.id # b.id /\ a.category_id = b.category_id) =>
            ~(a.start_time < b.end_time /\ b.start_time < a.end_time)

-----------------------------------------------------------------------------
(* Properties of booking and cancelling *)

\* Email normalization: lower-cased and whitespace-trimmed.
Normalize(email) == Strip(Lower(email))

\* The normalized form of each email a request may carry.
Normalized == [e \in EmailInputs |-> Normalize(e)]

\* C4: every slot has at most one persisted Booking, whatever the
\* interleaving of book and cancel requests.
C4_AtMostOneBooking ==
    \A s \in time_slots : Cardinality(SlotBooking(s.id)) <= 1

\* C4 witness: a book request that read its slot Open lost the race to
\* another one: its INSERT was refused and the slot has its one Booking.
C4_Witness ==
    /\ response.op = "book" /\ response.status = 500
    /\ \E s \in time_slots : Cardinality(SlotBooking(s.id)) = 1

\* C5 as stated: a book request that read its slot Open and commits after
\* another request with the same normalized email booked the slot receives
\* success with the id of that Booking, and no second Booking is persisted.
C5_ConcurrentSameEmailSucceeds ==
    [][\A w \in Workers :
          (req[w].op = "book" /\ \E utcnow \in 0..MaxClock : BookTimeSlotCommit(w, utcnow)) =>
              \A b \in SlotBooking(req[w].booking.time_slot_id) :
                  b.user_email = req[w].booking.user_email =>
                      /\ response'.op = "book"
                      /\ response'.status = 201
                      /\ response'.id = b.id
                      /\ bookings' = bookings]_vars

\* C6 as stated: a book request that read its slot Open and commits after
\* a request with a different normalized email booked the slot fails with
\* Conflict (409), and no second Booking is persisted.
C6_ConcurrentLoserConflict ==
    [][\A w \in Workers :
          (req[w].op = "book" /\ \E utcnow \in 0..MaxClock : BookTimeSlotCommit(w, utcnow)) =>
              \A b \in SlotBooking(req[w].booking.time_slot_id) :
                  b.user_email # req[w].booking.user_email =>
                      /\ response'.op = "book"
                      /\ response'.status = 409
                      /\ bookings' = bookings]_vars

\* C8 as stated: book on a Booked slot whose stored email equals the
\* normalized requesting email returns the existing Booking (same id) and
\* changes nothing.
C8_RebookNormalizedIdempotent ==
    [][\A w \in Workers, s \in SlotIdInputs, n \in NameInputs, e \in EmailInputs :
          ((\E b \in SlotBooking(s) : b.user_email = Normalized[e])
             /\ BookTimeSlotCheck(w, s, n, e)) =>
              /\ response'.op = "book"
              /\ response'.status = 201
              /\ \E b \in SlotBooking(s) : response'.id = b.id
              /\ req'[w].op = "idle"
              /\ bookings' = bookings]_vars

\* C9: book on a Booked slot with an email whose normalized form differs
\* from the stored one fails with Conflict (409) and leaves the bookings,
\* the slots and the categories as they were.
C9_RebookOtherEmailConflict ==
    [][response'.op = "book" =>
       \/ /\ response'.status = 409
          /\ req' = req
          /\ bookings' = bookings
          /\ time_slots' = time_slots
          /\ event_categories' = event_categories
       \/ \A w \in Workers :
              Free(w) =>
              \A s \in SlotIdInputs :
                  SlotBooking(s) # {} =>
                  \A e \in EmailInputs :
                      (\E b \in SlotBooking(s) : b.user_email # Normalized[e]) =>
                      \A n \in NameInputs :
                          ~BookTimeSlotCheck(w, s, n, e)]_vars

\* C9 witness: a book request has been answered Conflict and the slot's
\* Booking is there.
C9_Witness ==
    /\ response.op = "book" /\ response.status = 409
    /\ bookings # {}

\* C10: cancel on a Booked slot with an email whose normalized form differs
\* from the stored one fails with Forbidden (403) and leaves the Booking
\* as it was.
C10_CancelNonOwnerForbidden ==
    [][response'.op = "cancel" =>
       \A w \in Workers :
          Free(w) =>
          \A s \in SlotIdInputs :
              SlotBooking(s) # {} =>
              \A e \in EmailInputs :
                  ((\E b \in SlotBooking(s) : b.user_email # Normalized[e])
                     /\ CancelBookingCheck(w, s, e)) =>
                      /\ response'.op = "cancel"
                      /\ response'.status = 403
                      /\ req'[w].op = "idle"
                      /\ bookings' = bookings]_vars

\* C10 witness: a cancel request has been answered Forbidden and the
\* slot's Booking is there.
C10_Witness ==
    /\ response.op = "cancel" /\ response.status = 403
    /\ bookings # {}

\* C11 as stated: a cancel or a re-book on a Booked slot is treated as the
\* owner's exactly when the normalized (lower-cased, trimmed) requesting
\* email equals the stored email, which is the normalized email the slot was
\* booked with: the cancel goes on to delete the Booking, the re-book is
\* answered with the existing Booking.
C11_OwnerIffNormalizedEqual ==
    [][response'.op \in {"cancel", "book"} =>
       \A w \in Workers :
          Free(w) =>
          \A s \in SlotIdInputs :
              SlotBooking(s) # {} =>
              \A e \in EmailInputs :
                  /\ CancelBookingCheck(w, s, e) =>
                         ((req'[w].op = "cancel")
                            <=> (\E b \in SlotBooking(s) : b.user_email = Normalized[e]))
                  /\ \A n \in NameInputs :
                         BookTimeSlotCheck(w, s, n, e) =>
                             ((response'.status = 201)
                                <=> (\E b \in SlotBooking(s) : b.user_email = Normalized[e]))]_vars

\* C12: with requests handled one at a time, a cancel that passed the owner
\* check deletes the Booking of its slot and nothing else, so the slot is
\* Open again; a book on an Open slot, whatever the email, is accepted, its
\* commit persists a new Booking of that slot and the handler, reading it
\* back, answers 201 with it. Nothing in these steps depends on how often
\* the slot was booked before.
C12_CancelThenRebook ==
    [][\A w \in Workers :
          /\ (req[w].op = "cancel" /\ CancelBookingCommit(w)) =>
                 /\ response'.op = "cancel" /\ response'.status = 204
                 /\ SlotBooking(req[w].slot_id) # {}
                 /\ bookings' = bookings \ SlotBooking(req[w].slot_id)
                 /\ {b \in bookings' : b.time_slot_id = req[w].slot_id} = {}
          /\ Free(w) =>
                 \A s \in SlotIdInputs :
                     (GetTimeSlot(s) # {} /\ SlotBooking(s) = {}) =>
                     \A n \in NameInputs, e \in EmailInputs :
                         BookTimeSlotCheck(w, s, n, e) =>
                             /\ req'[w].op = "book"
                             /\ req'[w].booking.time_slot_id = s
                             /\ req'[w].booking.user_email = Normalized[e]
          /\ (req[w].op = "book" /\ \E utcnow \in 0..MaxClock : BookTimeSlotCommit(w, utcnow)) =>
                 /\ SlotBooking(req[w].booking.time_slot_id) = {}
                 /\ req'[w].op = "refresh"
                 /\ \E b \in bookings' :
                        /\ b.id = req'[w].booking_id
                        /\ b.time_slot_id = req[w].booking.time_slot_id
                        /\ b.user_email = req[w].booking.user_email
                        /\ bookings' = bookings \cup {b}
          /\ (req[w].op = "refresh" /\ BookTimeSlotRefresh(w)) =>
                 /\ response'.op = "book" /\ response'.status = 201
                 /\ response'.id = req[w].booking_id
                 /\ \E b \in bookings : response'.body = BookingRead(b)
                 /\ bookings' = bookings]_vars

\* C12 witness: a cancel has just succeeded, its slot is Open and the
\* Booking of the other slot is still there.
C12_Witness ==
    /\ response.op = "cancel" /\ response.status = 204
    /\ \E s \in time_slots, t \in time_slots :
           SlotBooking(s.id) = {} /\ SlotBooking(t.id) # {}

\* C13 as stated: book and cancel on a slot id that does not exist are
\* answered 404 "Time slot not found."; cancel on an existing slot without a
\* Booking is answered 404 "No booking found for this time slot." whatever
\* the email; in each case nothing is left pending and the categories,
\* slots and bookings are unchanged.
C13_NotFound ==
    [][response'.op \in {"cancel", "book"} =>
       \A w \in Workers :
          Free(w) =>
          \A s \in SlotIdInputs :
              SlotBooking(s) = {} =>
              \A e \in EmailInputs :
                  /\ CancelBookingCheck(w, s, e) =>
                         /\ response'.op = "cancel"
                         /\ response'.status = 404
                         /\ response'.detail =
                                IF \E t \in time_slots : t.id = s
                                THEN "No booking found for this time slot."
                                ELSE "Time slot not found."
                         /\ req' = req
                         /\ bookings' = bookings
                         /\ time_slots' = time_slots
                         /\ event_categories' = event_categories
                  /\ (\A t \in time_slots : t.id # s) =>
                         \A n \in NameInputs :
                             BookTimeSlotCheck(w, s, n, e) =>
                                 /\ response'.op = "book"
                                 /\ response'.status = 404
                                 /\ response'.detail = "Time slot not found."
                                 /\ req' = req
                                 /\ bookings' = bookings
                                 /\ time_slots' = time_slots
                                 /\ event_categories' = event_categories]_vars

-----------------------------------------------------------------------------
(* Properties of listing *)

\* The calendar day of a datetime, by its wall-clock fields.
Day(t) == t \div HoursPerDay

\* C14 as stated: a listing with well-formed inputs and end not earlier
\* than start is answered with exactly the persisted slots whose start time
\* falls on a day from the day of start through the day of end, whatever the
\* time of day in start and end, of the categories asked for when some are,
\* each slot once, in non-decreasing order of start time.
C14_ListWholeDays ==
    [][response'.op = "list" =>
       \A sd \in DateInputs, ed \in DateInputs :
          (/\ sd # <<>> /\ ed # <<>>
           /\ IsIsoFormat(sd) /\ IsIsoFormat(ed)
           /\ Instant(FromIsoFormat(ed)) >= Instant(FromIsoFormat(sd))) =>
          \A ci \in CategoryIdsInputs :
              (/\ \A part \in IdParts(ci) : IsInt(part)
               /\ ListTimeSlots(sd, ed, ci)) =>
                  LET ids == {ParseInt(part) : part \in IdParts(ci)}
                      expected ==
                          { t \in time_slots :
                              /\ Day(t.start_time) >= Day(FromIsoFormat(sd).wall)
                              /\ Day(t.start_time) <= Day(FromIsoFormat(ed).wall)
                              /\ (ids # {} => t.category_id \in ids) }
                      slots == response'.slots
                  IN /\ response'.status = 200
                     /\ {slots[i] : i \in 1..Len(slots)} = expected
                     /\ Len(slots) = Cardinality(expected)
                     /\ \A i, j \in 1..Len(slots) :
                            i < j => slots[i].start_time <= slots[j].start_time]_vars

-----------------------------------------------------------------------------
(* Properties of the whole service *)

\* The statuses of a request that failed: InvalidRange and the malformed
\* listings (400), Forbidden (403), CategoryNotFound, SlotNotFound and
\* NotFound (404), Conflict (409), and an exception nobody caught (500).
FailureStatuses == {400, 403, 404, 409, 500}

\* C15: the step that answers a request with a failure writes nothing: the
\* categories, the slots and the bookings are as they were before it, and
\* the request leaves nothing pending. A request that fails in its first
\* step has taken no other step, and one that fails at its commit had only
\* read before. A book that fails reading its row back had inserted it: the
\* row is gone by then, so nothing of the request is left in the table.
C15_RejectedChangesNothing ==
    [][response'.status \in FailureStatuses =>
          /\ event_categories' = event_categories
          /\ time_slots' = time_slots
          /\ bookings' = bookings
          /\ \A w \in Workers :
                 req'[w] # req[w] =>
                     /\ req'[w] = Idle
                     /\ req[w].op = "refresh" =>
                            \A b \in bookings' : b.id # req[w].booking_id]_vars

\* C15 witness: a create has been answered Conflict while a Booking exists.
C15_Witness ==
    /\ response.op = "create" /\ response.status = 409
    /\ bookings # {}

\* The slot a worker's book or cancel, at its commit, is addressed to.
AddressedSlot(w) ==
    IF req[w].op = "book" THEN req[w].booking.time_slot_id ELSE req[w].slot_id

\* C16 as stated: no step of any request changes or removes a persisted slot
\* or category, and a step changes the bookings only as the commit of a book
\* or a cancel, and then only the Booking of the slot that request is
\* addressed to: the Booking of every other slot stays as it was.
C16_SlotsImmutable ==
    [][/\ time_slots \subseteq time_slots'
       /\ event_categories \subseteq event_categories'
       /\ \A b \in (bookings \ bookings') \cup (bookings' \ bookings) :
              \E w \in Workers :
                  /\ req[w].op \in {"book", "cancel"}
                  /\ req'[w] # req[w]
                  /\ b.time_slot_id = AddressedSlot(w)]_vars

\* C17: every persisted Booking holds its email in normalized form and its
\* name whitespace-trimmed: a book request accepted for an Open slot holds
\* the trimmed name and the normalized email of its payload, the commit
\* persists them as they are, and a re-book answered with the existing
\* Booking leaves the bookings as they were.
C17_StoredNormalized ==
    /\ [](\A b \in bookings :
             /\ b.user_email = Normalize(b.user_email)
             /\ b.user_name = Strip(b.user_name))
    /\ [][response'.op = "book" =>
          /\ \A w \in Workers :
                 (Free(w) /\ req'[w].op = "book") =>
                 \A s \in SlotIdInputs, n \in NameInputs, e \in EmailInputs :
                     BookTimeSlotCheck(w, s, n, e) =>
                         /\ req'[w].booking.user_email = Normalized[e]
                         /\ req'[w].booking.user_name = Strip(n)
          /\ \A b \in bookings' \ bookings :
                 \E w \in Workers :
                     /\ req[w].op = "book"
                     /\ b.user_email = req[w].booking.user_email
                     /\ b.user_name = req[w].booking.user_name
          /\ (response'.status = 201 /\ req' = req) => bookings' = bookings]_vars

\* C17 witness: a Booking made with the name " m " is persisted, and a
\* re-book of its slot has just been answered with it.
C17_Witness ==
    /\ response.op = "book" /\ response.status = 201
    /\ \E b \in bookings :
           /\ b.id = response.id
           /\ b.user_name = <<"m">>
           /\ b.user_email = <<"a", "@", "x">>
    /\ \A w \in Workers : req[w].op = "idle"

\* C18: init_database inserts the initial categories only into an empty
\* table: its first run leaves the three seeded categories, every later run,
\* wherever it falls among the other requests, leaves the categories as
\* they are, so at every moment after the first run the categories are
\* those of a single run.
C18_SeedingIdempotent ==
    /\ [](Started => event_categories = SeedCategories)
    /\ [][InitDatabase =>
             /\ event_categories' = SeedCategories
             /\ (event_categories # {} => event_categories' = event_categories)]_vars
    /\ [][event_categories' # event_categories => event_categories = {}]_vars

\* C18 witness: init_database has run, and slots and a Booking have been
\* persisted since; init_database can run again here.
C18_Witness ==
    /\ event_categories = SeedCategories
    /\ time_slots # {}
    /\ bookings # {}
    /\ ENABLED InitDatabase

\* C19: every create, book or cancel request that has started completes,
\* whatever the other requests do: one that is past its reads eventually
\* has taken its last step, and it ends with an answer, a success (201,
\* 204) or an error (500); a request that is rejected is answered in its
\* first step. The only step of a started request that is not its last is
\* the commit of a book, which goes on to read its row back.
C19_RequestsComplete ==
    /\ \A w \in Workers : (req[w].op # "idle") ~> (req[w].op = "idle")
    /\ [][\A w \in Workers :
             /\ (req[w].op # "idle" /\ req'[w] # req[w]) =>
                    \/ /\ req'[w].op = "idle"
                       /\ response'.op = IF req[w].op = "refresh" THEN "book"
                                         ELSE req[w].op
                       /\ response'.status \in {201, 204, 500}
                    \/ /\ req[w].op = "book"
                       /\ req'[w].op = "refresh"
                       /\ response'.status = 0
             /\ (req[w].op = "idle" /\ req'[w].op # "idle") =>
                    response'.op = req'[w].op /\ response'.status = 0]_vars

\* C19 witness: two requests are between their reads and their commits at
\* the same time, both cancels of the same Booking.
C19_Witness ==
    \E v \in Workers, w \in Workers :
        /\ req[v].op = "cancel"
        /\ req[w].op = "cancel"
        /\ v # w
        /\ req[v].booking_id = req[w].booking_id

\* C20 as stated, for two datetimes that compare. create_time_slot: a
\* category that does not exist gives CategoryNotFound (404) whatever the
\* interval; else end <= start gives InvalidRange (400) even when the
\* overlap query would select a row; else a row selected gives Conflict
\* (409).
\* cancel_booking: a slot that does not exist gives SlotNotFound (404 "Time
\* slot not found."); else no Booking gives NotFound (404 "No booking found
\* for this time slot.") whatever the email; else an email that is not the
\* stored one gives Forbidden (403). A request that is rejected is answered
\* with the first of these that applies to it.
C20_CheckOrder ==
    [][(response'.status \in FailureStatuses /\ req' = req) =>
       \A w \in Workers :
          Free(w) =>
          /\ response'.op = "create" =>
                 \A c \in ServiceCategoryIds, s \in ServiceTimes, e \in ServiceTimes :
                     \/ ~Comparable(s, e)
                     \/ /\ response'.status =
                               IF \A k \in event_categories : k.id # c THEN 404
                               ELSE IF Instant(e) <= Instant(s) THEN 400
                               ELSE 409
                        /\ response'.status = 409 =>
                               Overlapping(c, Stored(s), Stored(e)) # {}
                     \/ ~CreateTimeSlotCheck(w, c, s, e)
          /\ response'.op = "cancel" =>
                 \A s \in ServiceSlotIds, e \in ServiceEmails :
                     \/ /\ response'.status =
                               IF \A t \in time_slots : t.id # s THEN 404
                               ELSE IF \A b \in bookings : b.time_slot_id # s THEN 404
                               ELSE 403
                        /\ response'.detail =
                               IF \A t \in time_slots : t.id # s
                               THEN "Time slot not found."
                               ELSE IF \A b \in bookings : b.time_slot_id # s
                               THEN "No booking found for this time slot."
                               ELSE "Only the original attendee can cancel this booking."
                        /\ response'.status = 403 =>
                               \E b \in bookings :
                                   b.time_slot_id = s /\ b.user_email # Normalize(e)
                     \/ ~CancelBookingCheck(w, s, e)]_vars

====
